---- MODULE Spec2Model ----
(***************************************************************************)
(* A model of socketIO_client/transports.py: the packet codec shared by    *)
(* every transport, the three concrete transports, the transport           *)
(* negotiator, the boundary deframer and the response/error translation.   *)
(*                                                                         *)
(* Text is modelled as a sequence of characters (one-character strings);   *)
(* the token "FFFD" stands for the single character U+FFFD and "E9" for    *)
(* U+00E9.  Byte strings are sequences of integers.                        *)
(***************************************************************************)
EXTENDS Integers, Sequences, FiniteSets, TLC

VARIABLES
    kind,                    \* which concrete transport class this instance is
    _packet_id,              \* _AbstractTransport._packet_id
    _callback_by_packet_id,  \* _AbstractTransport._callback_by_packet_id
    connected,               \* _connection.connected / _connected
    _jsonp_id,               \* _JSONP_PollingTransport._jsonp_id
    op,                      \* the last call on the transport and what it did
    registrations,           \* history: how many calls registered a callback
    claimed,                 \* history: the ids get_ack_callback has returned for
    nego,                    \* one call of _negotiate_transport
    batch,                   \* the text units one recv() call yields
    rp,                      \* one call of recv_packet on that batch
    body,                    \* the text of one polling response
    fr,                      \* one run of _yield_text_from_framed_data on it
    th                       \* the threads that call set_ack_callback

tvars == <<kind, _packet_id, _callback_by_packet_id, connected, _jsonp_id,
           op, registrations, claimed>>
nvars == <<nego>>
rvars == <<batch, rp>>
fvars == <<body, fr>>
\* what a call on the transport leaves alone
ovars == <<nego, batch, rp, body, fr, th>>
vars == <<kind, _packet_id, _callback_by_packet_id, connected, _jsonp_id,
          op, registrations, claimed, nego, batch, rp, body, fr, th>>

(***************************************************************************)
(* Bounds of the model.                                                    *)
(***************************************************************************)
MaxCalls == 2      \* calls on one transport that register a callback
MaxList == 3       \* length of a transport list given to the negotiator
MaxBatch == 3      \* text units in one receive batch
MaxBody == 7       \* characters in one polling response body

(***************************************************************************)
(* Python built-ins used by the module.                                    *)
(***************************************************************************)
Digits == <<"0", "1", "2", "3", "4", "5", "6", "7", "8", "9">>

RECURSIVE str(_)
\* str(n) for a non-negative integer: its decimal numeral
str(n) == IF n < 10 THEN <<Digits[n + 1]>>
          ELSE str(n \div 10) \o <<Digits[(n % 10) + 1]>>

RECURSIVE join(_, _)
\* sep.join(parts)
join(sep, parts) ==
    IF parts = <<>> THEN <<>>
    ELSE IF Len(parts) = 1 THEN parts[1]
    ELSE parts[1] \o sep \o join(sep, Tail(parts))

\* seq cut at the places of cuts, each of width places: the pieces between
pieces_between(seq, cuts, width) ==
    LET n == Cardinality(cuts)
        \* the k-th cut from the left
        cut(k) == CHOOSE i \in cuts : Cardinality({j \in cuts : j < i}) = k - 1
    IN  [k \in 1..(n + 1) |->
            SubSeq(seq,
                   IF k = 1 THEN 1 ELSE cut(k - 1) + width,
                   IF k = n + 1 THEN Len(seq) ELSE cut(k) - 1)]

\* text.split(c, maxsplit) for a one-character separator: the text is cut
\* at the first maxsplit occurrences of c, at all of them when maxsplit < 0
split(text, c, maxsplit) ==
    LET at == {i \in 1..Len(text) : text[i] = c}
        cuts == {i \in at :
                    maxsplit < 0 \/ Cardinality({j \in at : j < i}) < maxsplit}
    IN  pieces_between(text, cuts, 1)

RECURSIVE rstrip(_, _)
\* text.rstrip(c)
rstrip(text, c) ==
    IF text # <<>> /\ text[Len(text)] = c
    THEN rstrip(SubSeq(text, 1, Len(text) - 1), c)
    ELSE text

\* None, and a text value, in a place that may hold either
None == [isNone |-> TRUE, text |-> <<>>]
Text(s) == [isNone |-> FALSE, text |-> s]


(***************************************************************************)
(* json.dumps(value, ensure_ascii=False) over the values the model sends:  *)
(* integers, text, lists and dicts (a dict as its items in iteration       *)
(* order).                                                                 *)
(***************************************************************************)
JInt(n) == [t |-> "int", n |-> n, s |-> <<>>, items |-> <<>>]
JStr(s) == [t |-> "str", n |-> 0, s |-> s, items |-> <<>>]
JList(items) == [t |-> "list", n |-> 0, s |-> <<>>, items |-> items]
JDict(items) == [t |-> "dict", n |-> 0, s |-> <<>>, items |-> items]

RECURSIVE escape(_)
\* the body of a JSON string: '"' and '\' are escaped
escape(s) ==
    IF s = <<>> THEN <<>>
    ELSE (IF s[1] \in {"\"", "\\"} THEN <<"\\", s[1]>> ELSE <<s[1]>>)
            \o escape(Tail(s))

RECURSIVE dumps(_)
dumps(v) ==
    CASE v.t = "int" -> str(v.n)
      [] v.t = "str" -> <<"\"">> \o escape(v.s) \o <<"\"">>
      [] v.t = "list" ->
            <<"[">> \o join(<<",", " ">>,
                            [i \in 1..Len(v.items) |-> dumps(v.items[i])])
                    \o <<"]">>
      [] v.t = "dict" ->
            <<"{">> \o join(<<",", " ">>,
                            [i \in 1..Len(v.items) |->
                                dumps(JStr(v.items[i].s)) \o <<":", " ">>
                                    \o dumps(v.items[i].items[1])])
                    \o <<"}">>

\* one item of a dict: key and value
JItem(key, value) == [t |-> "item", n |-> 0, s |-> key, items |-> <<value>>]

(***************************************************************************)
(* The ack-callback registry and the packet-id counter                     *)
(* (_AbstractTransport, lines 87-101).                                     *)
(***************************************************************************)
\* d[key] = value on a dict
setitem(d, key, value) ==
    [k \in (DOMAIN d) \cup {key} |-> IF k = key THEN value ELSE d[k]]

\* del d[key]
delitem(d, key) == [k \in (DOMAIN d) \ {key} |-> d[k]]

\* set_ack_callback with the id formatted from the counter before its
\* increment
set_ack_callback_stale(pid, reg, callback) ==
    [pid |-> pid + 1,
     reg |-> setitem(reg, str(pid + 1), callback),
     ret |-> str(pid) \o <<"+">>]

\* set_ack_callback that stores under the string it returns
set_ack_callback_plus_key(pid, reg, callback) ==
    [pid |-> pid + 1,
     reg |-> setitem(reg, str(pid + 1) \o <<"+">>, callback),
     ret |-> str(pid + 1) \o <<"+">>]

\* set_ack_callback(callback): the counter, the registry and the id returned
set_ack_callback(pid, reg, callback) ==
    [pid |-> pid + 1,
     reg |-> setitem(reg, str(pid + 1), callback),
     ret |-> str(pid + 1) \o <<"+">>]

\* get_ack_callback without the del of line 96
get_ack_callback_keep(reg, packet_id) ==
    IF packet_id \notin DOMAIN reg
    THEN [result |-> "KeyError", reg |-> reg, ret |-> "None"]
    ELSE [result |-> "ok", reg |-> reg, ret |-> reg[packet_id]]

\* get_ack_callback(packet_id): KeyError on an unknown id, else the callback
\* is removed and returned
get_ack_callback(reg, packet_id) ==
    IF packet_id \notin DOMAIN reg
    THEN [result |-> "KeyError", reg |-> reg, ret |-> "None"]
    ELSE [result |-> "ok", reg |-> delitem(reg, packet_id),
          ret |-> reg[packet_id]]

\* the has_ack_callback property
has_ack_callback == (DOMAIN _callback_by_packet_id) # {}

(***************************************************************************)
(* send_packet (lines 62-67) up to the call of self.send: the state after  *)
(* the id was minted and the wire text handed to send.                     *)
(***************************************************************************)
\* the wire text with its trailing empty fields cut off
packet_text_truncated(code, packet_id, path, data) ==
    rstrip(join(<<":">>, <<str(code), packet_id, path, data>>), ":")

packet_text(code, packet_id, path, data) ==
    join(<<":">>, <<str(code), packet_id, path, data>>)

send_packet(pid, reg, code, path, data, callback) ==
    LET minted == set_ack_callback(pid, reg, callback)
        packet_id == IF callback # "None" THEN minted.ret ELSE <<>>
    IN  [pid |-> IF callback # "None" THEN minted.pid ELSE pid,
         reg |-> IF callback # "None" THEN minted.reg ELSE reg,
         packet_id |-> packet_id,
         text |-> packet_text(code, packet_id, path, data)]


(***************************************************************************)
(* Characters and bytes: ord / chr on ASCII, and UTF-8 for the two         *)
(* non-ASCII characters of the model.                                      *)
(***************************************************************************)
\* the printable ASCII characters, code 32 first ("GRAVE" is code 96)
Printable == <<
    " ", "!", "\"", "#", "$", "%", "&", "'", "(", ")", "*", "+",
    ",", "-", ".", "/", "0", "1", "2", "3", "4", "5", "6", "7",
    "8", "9", ":", ";", "<", "=", ">", "?", "@", "A", "B", "C",
    "D", "E", "F", "G", "H", "I", "J", "K", "L", "M", "N", "O",
    "P", "Q", "R", "S", "T", "U", "V", "W", "X", "Y", "Z", "[",
    "\\", "]", "^", "_", "GRAVE", "a", "b", "c", "d", "e", "f", "g",
    "h", "i", "j", "k", "l", "m", "n", "o", "p", "q", "r", "s",
    "t", "u", "v", "w", "x", "y", "z", "{", "|", "}", "~">>

\* the code of each printable character
PrintableCode ==
    [c \in {Printable[i] : i \in 1..Len(Printable)} |->
        31 + CHOOSE i \in 1..Len(Printable) : Printable[i] = c]

ord(c) == IF c = "\n" THEN 10 ELSE PrintableCode[c]

chr(b) == IF b = 10 THEN "\n" ELSE Printable[b - 31]

\* BOUNDARY: the UTF-8 bytes of U+FFFD
BOUNDARY == <<239, 191, 189>>

\* one character as UTF-8 bytes
utf8(c) == CASE c = "FFFD" -> BOUNDARY
             [] c = "E9" -> <<195, 169>>
             [] OTHER -> <<ord(c)>>

RECURSIVE encode(_)
\* text.encode('utf-8')
encode(text) ==
    IF text = <<>> THEN <<>> ELSE utf8(text[1]) \o encode(Tail(text))

RECURSIVE decode(_)
\* bytes.decode('utf-8') of well-formed UTF-8
decode(bytes) ==
    IF bytes = <<>> THEN <<>>
    ELSE IF bytes[1] < 128
         THEN <<chr(bytes[1])>> \o decode(Tail(bytes))
    ELSE IF bytes[1] = 195
         THEN <<"E9">> \o decode(SubSeq(bytes, 3, Len(bytes)))
    ELSE <<"FFFD">> \o decode(SubSeq(bytes, 4, Len(bytes)))

\* whether byte string sep occurs in bytes at index i
occurs(bytes, sep, i) ==
    /\ i + Len(sep) - 1 <= Len(bytes)
    /\ SubSeq(bytes, i, i + Len(sep) - 1) = sep

\* bytes.split(sep) for a separator no two occurrences of which can
\* overlap, as BOUNDARY, whose bytes all differ
bsplit(bytes, sep) ==
    pieces_between(bytes, {i \in 1..Len(bytes) : occurs(bytes, sep, i)},
                   Len(sep))

(***************************************************************************)
(* _yield_text_from_framed_data (lines 261-268).                           *)
(***************************************************************************)
\* parts = [x.decode('utf-8') for x in framed_data.split(BOUNDARY)]
framed_parts(framed_data) ==
    LET raw == bsplit(framed_data, BOUNDARY)
    IN  [i \in 1..Len(raw) |-> decode(raw[i])]

\* the pairing taken from index 0: izip(parts[0::2], parts[1::2])
framed_pairs_from0(parts) ==
    [k \in 1..(Len(parts) \div 2) |->
        [text_length |-> parts[2 * k - 1], text |-> parts[2 * k]]]

\* izip(parts[1::2], parts[2::2]): the k-th pair (text_length, text)
framed_pairs(parts) ==
    [k \in 1..((Len(parts) - 1) \div 2) |->
        [text_length |-> parts[2 * k], text |-> parts[2 * k + 1]]]

\* the test of line 264
length_matches(text_length, text) == text_length = str(Len(text))

\* one turn of the loop of lines 263-268 on a pair: the text is yielded on a
\* match, and the warning of lines 266-268 is logged after it either way
framed_step(acc, pair) ==
    [acc EXCEPT !.yielded = IF length_matches(pair.text_length, pair.text)
                            THEN Append(acc.yielded, pair.text)
                            ELSE acc.yielded,
                !.warnings = Append(acc.warnings, pair)]

RECURSIVE framed_loop(_, _, _)
framed_loop(acc, pairs, k) ==
    IF k > Len(pairs) THEN acc
    ELSE framed_loop(framed_step(acc, pairs[k]), pairs, k + 1)

\* everything the generator yields and logs when it is run to its end
_yield_text_from_framed_data(framed_data) ==
    framed_loop([yielded |-> <<>>, warnings |-> <<>>],
                framed_pairs(framed_parts(framed_data)), 1)


(***************************************************************************)
(* recv_packet (lines 69-85) on the units one recv() call yields.  A unit  *)
(* is a text, or None, which has no split attribute.  The four locals are  *)
(* set once, before the loop (line 70).                                    *)
(***************************************************************************)
\* the split without its limit of 3
packet_parts_unlimited(text) == split(text, ":", -1)

\* packet_text.split(':', 3)
packet_parts(text) == split(text, ":", 3)

\* lines 78-84: the locals after the unit's parts were assigned
recv_assign(loc, parts) ==
    CASE Len(parts) = 4 ->
            [code |-> Text(parts[1]), packet_id |-> Text(parts[2]),
             path |-> Text(parts[3]), data |-> Text(parts[4])]
      [] Len(parts) = 3 ->
            [loc EXCEPT !.code = Text(parts[1]), !.packet_id = Text(parts[2]),
                        !.path = Text(parts[3])]
      [] Len(parts) = 1 -> [loc EXCEPT !.code = Text(parts[1])]
      [] OTHER -> loc

\* one turn of the loop of lines 71-85: a unit without split is logged and
\* skipped (line 77); after any other unit line 85 yields the locals
recv_step(st, unit) ==
    IF unit.isNone
    THEN [st EXCEPT !.skipped = Append(st.skipped, unit)]
    ELSE LET loc == recv_assign(st.loc, packet_parts(unit.text))
         IN  [st EXCEPT !.loc = loc,
                        !.yielded = Append(st.yielded,
                            <<loc.code, loc.packet_id, loc.path, loc.data>>)]

RECURSIVE recv_loop(_, _, _)
recv_loop(st, units, i) ==
    IF i > Len(units) THEN st
    ELSE recv_loop(recv_step(st, units[i]), units, i + 1)

\* everything recv_packet yields when it is run over the units to its end
recv_packet(units) ==
    recv_loop([loc |-> [code |-> None, packet_id |-> None,
                        path |-> None, data |-> None],
               yielded |-> <<>>, skipped |-> <<>>], units, 1)

(***************************************************************************)
(* _JSONP_PollingTransport.DATA_PATTERN (line 191), matched at the start   *)
(* of a byte string as re.match does: i, o, any byte but a newline, j,    *)
(* an opening bracket, one or more digits (group 1), a closing bracket,    *)
(* an opening parenthesis, a double quote, any bytes but newlines, as many *)
(* as possible (group 2), a double quote, a closing parenthesis, a         *)
(* semicolon.                                                              *)
(***************************************************************************)
DATA_PATTERN_match(b) ==
    LET n == Len(b)
        \* the first index from 6 on that holds no digit
        dEnd == CHOOSE i \in 6..(n + 6) :
                    /\ i > n \/ b[i] \notin 48..57
                    /\ \A j \in 6..(i - 1) : j <= n /\ b[j] \in 48..57
        headOK == /\ n >= 5
                  /\ b[1] = 105 /\ b[2] = 111 /\ b[3] # 10 /\ b[4] = 106
                  /\ b[5] = 91
                  /\ dEnd > 6
                  /\ dEnd + 2 <= n
                  /\ b[dEnd] = 93 /\ b[dEnd + 1] = 40 /\ b[dEnd + 2] = 34
        start == dEnd + 3
        \* where the closing quote may stand: group 2 takes no newline
        ends == {q \in start..(n - 2) :
                    /\ b[q] = 34 /\ b[q + 1] = 41 /\ b[q + 2] = 59
                    /\ \A j \in start..(q - 1) : b[j] # 10}
        \* group 2 is greedy: the last of them
        last == CHOOSE q \in ends : \A r \in ends : r <= q
    IN  IF headOK /\ ends # {}
        THEN [matched |-> TRUE, id |-> SubSeq(b, 6, dEnd - 1),
              data |-> SubSeq(b, start, last - 1)]
        ELSE [matched |-> FALSE, id |-> <<>>, data |-> <<>>]

\* bytes.startswith(prefix)
startswith(bytes, prefix) ==
    Len(bytes) >= Len(prefix) /\ SubSeq(bytes, 1, Len(prefix)) = prefix

(***************************************************************************)
(* What the libraries under the transports may do on one blocking call:    *)
(* raise an exception, or return a status and a text.                      *)
(***************************************************************************)
Outcome(raises, status, text) ==
    [raises |-> raises, status |-> status, text |-> text]

\* isinstance(e, cls) for the exception classes the module names
isinstance(e, cls) ==
    \/ e = cls
    \/ cls = "socket.error" /\ e \in {"socket.timeout", "ssl.SSLError"}
    \/ cls = "requests.Timeout" /\ e \in {"requests.ConnectTimeout",
                                          "requests.ReadTimeout"}
    \/ cls = "requests.ConnectionError" /\ e \in {"requests.ConnectTimeout",
                                                  "requests.SSLError"}

\* _get_response with the ConnectionError clause tried before the Timeout
\* clause
_get_response_connection_first(out) ==
    IF out.raises # "none"
    THEN IF isinstance(out.raises, "requests.ConnectionError")
            THEN "SocketIOConnectionError"
         ELSE IF isinstance(out.raises, "requests.Timeout")
            THEN "_TimeoutError"
         ELSE IF isinstance(out.raises, "requests.SSLError")
            THEN "SocketIOConnectionError"
         ELSE out.raises
    ELSE IF 200 # out.status THEN "SocketIOConnectionError"
    ELSE "ok"

\* _get_response (lines 271-283) on what the request did
_get_response(out) ==
    IF out.raises # "none"
    THEN IF isinstance(out.raises, "requests.Timeout")
            THEN "_TimeoutError"
         ELSE IF isinstance(out.raises, "requests.ConnectionError")
            THEN "SocketIOConnectionError"
         ELSE IF isinstance(out.raises, "requests.SSLError")
            THEN "SocketIOConnectionError"
         ELSE out.raises
    ELSE IF 200 # out.status THEN "SocketIOConnectionError"
    ELSE "ok"


(***************************************************************************)
(* The three transports: send, recv and close (lines 104-239).             *)
(***************************************************************************)
TRANSPORTS == <<"websocket", "xhr-polling", "jsonp-polling">>

HexDigits == <<"0", "1", "2", "3", "4", "5", "6", "7", "8", "9",
               "A", "B", "C", "D", "E", "F">>

\* whether requests.utils.quote leaves the byte as it is
quote_safe(b) ==
    \/ b \in 48..57 \/ b \in 65..90 \/ b \in 97..122
    \/ b \in {95, 46, 45, 47}    \* _ . - /

RECURSIVE quote_bytes(_)
quote_bytes(bytes) ==
    IF bytes = <<>> THEN <<>>
    ELSE (IF quote_safe(bytes[1]) THEN <<chr(bytes[1])>>
          ELSE <<"%", HexDigits[(bytes[1] \div 16) + 1],
                 HexDigits[(bytes[1] % 16) + 1]>>)
            \o quote_bytes(Tail(bytes))

\* requests.utils.quote(packet_text)
quote(text) == quote_bytes(encode(text))

\* the _jsonp_id attribute: the integer 0 of line 200, or the digits that
\* line 228 takes from a response
JsonpInt(n) == [isInt |-> TRUE, text |-> str(n)]
JsonpStr(s) == [isInt |-> FALSE, text |-> s]

\* one HTTP request: the method, the body, and the query parameters beside t
Request(method, data, jsonp, disconnect, timeout) ==
    [method |-> method, data |-> data, jsonp |-> jsonp,
     disconnect |-> disconnect, timeout |-> timeout]

\* the _params property of the two polling transports (lines 157-159 and
\* 206-208): the jsonp parameter, None on the plain transport
_params(k, jsonp) == IF k = "jsonp-polling" THEN Text(jsonp.text) ELSE None

\* send(packet_text) of the transport of kind k, on what the library did:
\* the outcome and the HTTP requests made
send(k, text, jsonp, out) ==
    IF k = "websocket"
    THEN [result |-> IF out.raises = "none" THEN "ok"
                     ELSE IF isinstance(out.raises, "socket.error")
                        THEN "SocketIOConnectionError"
                     ELSE out.raises,
          http |-> <<>>]
    ELSE [result |-> _get_response(out),
          http |-> <<Request("POST",
                             IF k = "jsonp-polling"
                             THEN <<"d", "=">> \o quote(text) ELSE text,
                             _params(k, jsonp), FALSE, TRUE)>>]

\* _WebsocketTransport.recv (lines 129-137)
ws_recv(out) ==
    IF out.raises = "none"
    THEN [result |-> "ok", units |-> <<out.text>>]
    ELSE [result |-> IF isinstance(out.raises, "socket.timeout")
                        THEN "_TimeoutError"
                     ELSE IF isinstance(out.raises, "socket.error")
                        THEN "SocketIOConnectionError"
                     ELSE IF isinstance(out.raises,
                                "WebSocketConnectionClosedException")
                        THEN "SocketIOConnectionError"
                     ELSE out.raises,
          units |-> <<>>]

\* the texts as units
as_units(texts) == [i \in 1..Len(texts) |-> Text(texts[i])]

\* the receive with the framed scan as the else branch of line 176
xhr_units_else(text) ==
    LET encoded_text == encode(text)
    IN  IF ~startswith(encoded_text, BOUNDARY)
        THEN <<Text(decode(encoded_text))>>
        ELSE as_units(_yield_text_from_framed_data(encoded_text).yielded)

\* _XHR_PollingTransport.recv (lines 169-179) on a 200 response's text
xhr_units(text) ==
    LET encoded_text == encode(text)
    IN  (IF ~startswith(encoded_text, BOUNDARY)
         THEN <<Text(decode(encoded_text))>> ELSE <<>>)
            \o as_units(_yield_text_from_framed_data(encoded_text).yielded)

xhr_recv(out) ==
    IF _get_response(out) # "ok"
    THEN [result |-> _get_response(out), units |-> <<>>]
    ELSE [result |-> "ok", units |-> xhr_units(out.text.text)]

\* the receive without the assignment to _jsonp_id of line 228
jsonp_recv_keep(jsonp, out) ==
    IF _get_response(out) # "ok"
    THEN [result |-> _get_response(out), units |-> <<>>, jsonp |-> jsonp]
    ELSE LET encoded_text == encode(out.text.text)
             m == DATA_PATTERN_match(encoded_text)
             framed == as_units(
                        _yield_text_from_framed_data(encoded_text).yielded)
         IN  IF startswith(encoded_text, BOUNDARY)
             THEN [result |-> "ok", units |-> framed, jsonp |-> jsonp]
             ELSE IF ~m.matched
             THEN [result |-> "AttributeError", units |-> <<>>,
                   jsonp |-> jsonp]
             ELSE [result |-> "ok",
                   units |-> <<Text(decode(m.data))>> \o framed,
                   jsonp |-> jsonp]

\* _JSONP_PollingTransport.recv (lines 219-232): groups() of no match is
\* an AttributeError, raised before anything is yielded
jsonp_recv(jsonp, out) ==
    IF _get_response(out) # "ok"
    THEN [result |-> _get_response(out), units |-> <<>>, jsonp |-> jsonp]
    ELSE LET encoded_text == encode(out.text.text)
             m == DATA_PATTERN_match(encoded_text)
             framed == as_units(
                        _yield_text_from_framed_data(encoded_text).yielded)
         IN  IF startswith(encoded_text, BOUNDARY)
             THEN [result |-> "ok", units |-> framed, jsonp |-> jsonp]
             ELSE IF ~m.matched
             THEN [result |-> "AttributeError", units |-> <<>>,
                   jsonp |-> jsonp]
             ELSE [result |-> "ok",
                   units |-> <<Text(decode(m.data))>> \o framed,
                   jsonp |-> JsonpStr(decode(m.id))]

\* recv() of the transport of kind k
recv(k, jsonp, out) ==
    CASE k = "websocket" -> ws_recv(out) @@ [jsonp |-> jsonp]
      [] k = "xhr-polling" -> xhr_recv(out) @@ [jsonp |-> jsonp]
      [] k = "jsonp-polling" -> jsonp_recv(jsonp, out)

\* close() of the transport of kind k (lines 139-140, 181-186, 234-239):
\* the outcome, the requests made and the connected flag afterwards
close(k, conn, jsonp, out) ==
    IF k = "websocket"
    THEN [result |-> "ok", http |-> <<>>, connected |-> FALSE]
    ELSE [result |-> _get_response(out),
          http |-> <<Request("GET", <<>>, _params(k, jsonp), TRUE, FALSE)>>,
          connected |-> IF _get_response(out) = "ok" THEN FALSE ELSE conn]


(***************************************************************************)
(* The calls a client makes on one transport, and what the libraries may   *)
(* answer.                                                                 *)
(***************************************************************************)
Paths == {<<>>, <<"/", "a">>, <<"a", ":", "b">>}
Callbacks == {"cb1", "cb2"}
MessagePaths == {<<>>, <<"/", "a">>}
MessageData == {JStr(<<"x", ":", "y">>), JDict(<<JItem(<<"a">>, JInt(1))>>)}
MessageCallbacks == {"None", "cb1"}
EmitPaths == {<<"/", "a">>}
Events == {<<"e">>}
EmitArgs == {JList(<<JStr(<<"x">>)>>)}
EmitCallbacks == {"None", "cb2"}
AckIds == {<<"1", "+">>, <<"2">>}
AckArgs == {<<>>, <<JStr(<<"o">>)>>}

\* the ids a caller may look up: the keys and the returned forms
LookupIds == UNION {{str(n), str(n) \o <<"+">>} : n \in 1..(MaxCalls + 1)}

HttpErrors == {"requests.ReadTimeout", "requests.ConnectTimeout",
               "requests.ConnectionError", "requests.SSLError"}

\* one POST outcome of each kind: answered 200, answered 500, timed out
PostOutcomes ==
    {Outcome("none", 200, None), Outcome("none", 500, None),
     Outcome("requests.ReadTimeout", 0, None)}

\* the GET of close is made without a timeout (lines 182-185, 235-238)
CloseOutcomes ==
    {Outcome("none", 200, None), Outcome("none", 500, None),
     Outcome("requests.ConnectionError", 0, None),
     Outcome("requests.SSLError", 0, None)}

WsSendErrors == {"socket.error", "WebSocketConnectionClosedException"}

\* response texts of a polling GET
SampleBodies ==
    {<<"2", ":", ":">>,
     <<"FFFD", "3", "FFFD", "2", ":", ":", "FFFD", "1", "FFFD", "8">>,
     <<"i", "o", ".", "j", "[", "7", "]", "(", "\"", "8", "\"", ")", ";">>,
     <<"i", "o", ".", "j", "[", "1", "2", "]", "(", "\"", "2", ":", ":", "\"",
       ")", ";">>,
     <<"i", "o", ".", "j", "(", "8", ")">>,
     <<"x", "FFFD", "1", "FFFD", "8">>,
     <<>>}

HttpGetOutcomes ==
    {Outcome("none", 200, Text(b)) : b \in SampleBodies}
        \cup {Outcome("none", 500, None)}
        \cup {Outcome(e, 0, None) : e \in HttpErrors}

\* messages of a websocket; recv() of the library may also give None
SampleMessages == {Text(<<"2", ":", ":">>), Text(<<"5", ":", "1">>), None}

WsErrors == {"socket.error", "socket.timeout", "ssl.SSLError",
             "WebSocketConnectionClosedException"}

SendOutcomes(k, conn) ==
    IF k = "websocket"
    THEN (IF conn THEN {Outcome("none", 0, None)} ELSE {})
            \cup {Outcome(e, 0, None) : e \in WsSendErrors}
    ELSE PostOutcomes

RecvOutcomes(k, conn) ==
    IF k = "websocket"
    THEN (IF conn THEN {Outcome("none", 0, m) : m \in SampleMessages}
          ELSE {})
            \cup {Outcome(e, 0, None) : e \in WsErrors}
    ELSE HttpGetOutcomes

\* what a call that reaches no library call is answered
NoResponse == Outcome("none", 0, None)

\* the record of one call: its arguments (code is the code given to
\* send_packet, -1 when the call reaches no send_packet), its outcome, the
\* id it returned or embedded, the callback it returned, the texts it handed
\* to send, the HTTP requests it made, how often it called close, the tuples
\* it yielded, what the library answered its blocking call, and the units
\* the transport's recv() yielded
Op(name, code, path, data, callback, packet_id, result, id, cb, sent, http, closes, yielded, response, units) ==
    [name |-> name, code |-> code, path |-> path, data |-> data, callback |-> callback,
     packet_id |-> packet_id, result |-> result, id |-> id, cb |-> cb,
     sent |-> sent, http |-> http, closes |-> closes, yielded |-> yielded,
     response |-> response, units |-> units]

NoOp == Op("init", -1, <<>>, <<>>, "None", <<>>, "ok", <<>>, "None", <<>>, <<>>,
           0, <<>>, NoResponse, <<>>)

\* the values of the variables a specification does not use
NegoIdle == [state |-> "idle", client |-> <<>>, server |-> <<>>,
             result |-> "none", selected |-> "none", message |-> <<>>,
             tried |-> <<>>, raised |-> "none"]
RecvIdle == [i |-> 0, loc |-> [code |-> None, packet_id |-> None,
                               path |-> None, data |-> None],
             yielded |-> <<>>, skipped |-> <<>>]
FrameIdle == [k |-> 0, yielded |-> <<>>, warnings |-> <<>>]
Threads == {1, 2}
ThreadsIdle == [n |-> 0, pc |-> [t \in Threads |-> "idle"],
                tmp |-> [t \in Threads |-> 0],
                callback |-> [t \in Threads |-> "None"],
                calls |-> [t \in Threads |-> 0], done |-> {}]

NegoIdleInit == nego = NegoIdle
RecvIdleInit == batch = <<>> /\ rp = RecvIdle
FrameIdleInit == body = <<>> /\ fr = FrameIdle
ThreadsIdleInit == th = ThreadsIdle

Others == NegoIdleInit /\ RecvIdleInit /\ FrameIdleInit /\ ThreadsIdleInit

Init ==
    /\ kind \in {TRANSPORTS[i] : i \in 1..Len(TRANSPORTS)}
    /\ _packet_id = 0
    /\ _callback_by_packet_id = <<>>
    /\ connected = TRUE
    /\ _jsonp_id = JsonpInt(0)
    /\ op = NoOp
    /\ registrations = 0
    /\ claimed = {}
    /\ Others

\* send_packet that takes the registration back when send raises
send_packet_run_rollback(pid, reg, k, jsonp, code, path, data, callback, out) ==
    LET sp == send_packet(pid, reg, code, path, data, callback)
        s == send(k, sp.text, jsonp, out)
    IN  [pid |-> IF s.result = "ok" THEN sp.pid ELSE pid,
         reg |-> IF s.result = "ok" THEN sp.reg ELSE reg,
         packet_id |-> sp.packet_id,
         sent |-> <<sp.text>>, result |-> s.result, http |-> s.http]

\* send_packet (lines 62-67) to its end on the transport of kind k: the
\* counter and the registry as line 63 leaves them, the texts handed to
\* self.send (line 66), what that call did and the requests it made
send_packet_run(pid, reg, k, jsonp, code, path, data, callback, out) ==
    LET sp == send_packet(pid, reg, code, path, data, callback)
        s == send(k, sp.text, jsonp, out)
    IN  [pid |-> sp.pid, reg |-> sp.reg, packet_id |-> sp.packet_id,
         sent |-> <<sp.text>>, result |-> s.result, http |-> s.http]

\* a call that ends in send_packet: the id is minted, the text is built and
\* send is called once
SendCall(name, code, path, data, callback, packet_id, out) ==
    \E sp \in {send_packet_run(_packet_id, _callback_by_packet_id, kind,
                                _jsonp_id, code, path, data, callback, out)} :
        /\ callback # "None" => registrations < MaxCalls
        /\ _packet_id' = sp.pid
        /\ _callback_by_packet_id' = sp.reg
        /\ registrations' = registrations + (IF callback # "None" THEN 1 ELSE 0)
        /\ op' = Op(name, code, path, data, callback, packet_id, sp.result,
                    sp.packet_id, "None", sp.sent, sp.http, 0, <<>>, out,
                    <<>>)
        /\ UNCHANGED <<kind, connected, _jsonp_id, claimed>>
        /\ UNCHANGED ovars

\* a call of close()
CloseCall(name, out) ==
    LET c == close(kind, connected, _jsonp_id, out)
    IN  /\ connected' = c.connected
        /\ op' = Op(name, -1, <<>>, <<>>, "None", <<>>, c.result, <<>>,
                    "None", <<>>, c.http, 1, <<>>, out, <<>>)
        /\ UNCHANGED <<kind, _packet_id, _callback_by_packet_id, _jsonp_id,
                       registrations, claimed>>
        /\ UNCHANGED ovars

\* disconnect without the test of line 26
disconnect_unchecked(conn, path) ==
    IF path # <<>> THEN "send_packet" ELSE "close"

\* what disconnect(path) does (lines 25-31)
disconnect(conn, path) ==
    IF ~conn THEN "return" ELSE IF path # <<>> THEN "send_packet" ELSE "close"

Disconnect ==
    \E path \in Paths :
        CASE disconnect(connected, path) = "return" ->
                /\ op' = Op("disconnect", -1, path, <<>>, "None", <<>>,
                            "ok", <<>>, "None", <<>>, <<>>, 0, <<>>,
                            NoResponse, <<>>)
                /\ UNCHANGED <<kind, _packet_id, _callback_by_packet_id,
                               connected, _jsonp_id, registrations, claimed>>
                /\ UNCHANGED ovars
          [] disconnect(connected, path) = "send_packet" ->
                \E out \in SendOutcomes(kind, connected) :
                    SendCall("disconnect", 0, path, <<>>, "None", <<>>, out)
          [] disconnect(connected, path) = "close" ->
                \E out \in CloseOutcomes :
                    /\ CloseCall("disconnect", out)
                    /\ op'.path = path

Connect ==
    \E path \in Paths, out \in SendOutcomes(kind, connected) :
        SendCall("connect", 1, path, <<>>, "None", <<>>, out)

SendHeartbeat ==
    \E out \in SendOutcomes(kind, connected) :
        SendCall("send_heartbeat", 2, <<>>, <<>>, "None", <<>>, out)

\* message (lines 39-45): text goes out as it is with code 3, anything else
\* as JSON with code 4
message_code(data) == IF data.t = "str" THEN 3 ELSE 4
message_data(data) == IF data.t = "str" THEN data.s ELSE dumps(data)

Message ==
    \E path \in MessagePaths, data \in MessageData,
       callback \in MessageCallbacks,
       out \in SendOutcomes(kind, connected) :
        SendCall("message", message_code(data), path, message_data(data),
                 callback, <<>>, out)

\* emit (lines 47-49); the order of the two keys is the dict's own
emit_data(event, args, nameFirst) ==
    dumps(JDict(IF nameFirst
                THEN <<JItem(<<"n", "a", "m", "e">>, JStr(event)),
                       JItem(<<"a", "r", "g", "s">>, args)>>
                ELSE <<JItem(<<"a", "r", "g", "s">>, args),
                       JItem(<<"n", "a", "m", "e">>, JStr(event))>>))

Emit ==
    \E path \in EmitPaths, event \in Events, args \in EmitArgs,
       callback \in EmitCallbacks, nameFirst \in BOOLEAN,
       out \in SendOutcomes(kind, connected) :
        SendCall("emit", 5, path, emit_data(event, args, nameFirst),
                 callback, <<>>, out)

\* ack (lines 51-57)
ack_data(packet_id, args) ==
    IF args # <<>>
    THEN rstrip(packet_id, "+") \o <<"+">> \o dumps(JList(args))
    ELSE rstrip(packet_id, "+")

Ack ==
    \E packet_id \in AckIds, args \in AckArgs,
       out \in SendOutcomes(kind, connected) :
        SendCall("ack", 6, <<>>, ack_data(packet_id, args), "None",
                 packet_id, out)

Noop ==
    \E out \in SendOutcomes(kind, connected) :
        SendCall("noop", 8, <<>>, <<>>, "None", <<>>, out)

SetAckCallback ==
    \E callback \in Callbacks :
        LET r == set_ack_callback(_packet_id, _callback_by_packet_id,
                                  callback)
        IN  /\ registrations < MaxCalls
            /\ _packet_id' = r.pid
            /\ _callback_by_packet_id' = r.reg
            /\ registrations' = registrations + 1
            /\ op' = Op("set_ack_callback", -1, <<>>, <<>>, callback, <<>>,
                        "ok", r.ret, "None", <<>>, <<>>, 0, <<>>, NoResponse,
                        <<>>)
            /\ UNCHANGED <<kind, connected, _jsonp_id, claimed>>
            /\ UNCHANGED ovars

GetAckCallback ==
    \E packet_id \in LookupIds :
        LET r == get_ack_callback(_callback_by_packet_id, packet_id)
        IN  /\ _callback_by_packet_id' = r.reg
            /\ op' = Op("get_ack_callback", -1, <<>>, <<>>, "None",
                        packet_id, r.result, <<>>, r.ret, <<>>, <<>>, 0,
                        <<>>, NoResponse, <<>>)
            /\ claimed' = IF r.result = "ok" THEN claimed \cup {packet_id}
                          ELSE claimed
            /\ UNCHANGED <<kind, _packet_id, connected, _jsonp_id,
                           registrations>>
            /\ UNCHANGED ovars

\* the GET of a polling recv (lines 170-174, 220-225)
recv_http(k, jsonp) ==
    IF k = "websocket" THEN <<>>
    ELSE <<Request("GET", <<>>, _params(k, jsonp), FALSE, TRUE)>>

\* recv_packet(), run to its end; a websocket that finds its connection
\* closed is no longer connected
RecvPacket ==
    \E out \in RecvOutcomes(kind, connected) :
        LET r == recv(kind, _jsonp_id, out)
        IN  /\ _jsonp_id' = r.jsonp
            /\ connected' =
                IF kind = "websocket"
                    /\ out.raises = "WebSocketConnectionClosedException"
                THEN FALSE ELSE connected
            /\ op' = Op("recv_packet", -1, <<>>, <<>>, "None", <<>>,
                        r.result, <<>>, "None", <<>>,
                        recv_http(kind, _jsonp_id), 0,
                        recv_packet(r.units).yielded, out, r.units)
            /\ UNCHANGED <<kind, _packet_id, _callback_by_packet_id,
                           registrations, claimed>>
            /\ UNCHANGED ovars

Close == \E out \in CloseOutcomes : CloseCall("close", out)

Next ==
    \/ Connect
    \/ Disconnect
    \/ SendHeartbeat
    \/ Message
    \/ Emit
    \/ Ack
    \/ Noop
    \/ SetAckCallback
    \/ GetAckCallback
    \/ RecvPacket
    \/ Close

Spec == Init /\ [][Next]_vars


(***************************************************************************)
(* Properties of the ack ids and the registry.                             *)
(***************************************************************************)
\* the field of the given index in a wire text cut at every ':'
wire_field(text, i) == split(text, ":", -1)[i]

\* the calls that may register a callback
RegisteringCalls == {"set_ack_callback", "message", "emit"}
\* the calls that end in send_packet
SendingCalls == {"connect", "disconnect", "send_heartbeat", "message",
                 "emit", "ack", "noop"}

\* what C1 asks of one step
C1_AckIdsCount_Step ==
    /\ (op'.name \in RegisteringCalls /\ op'.callback # "None") =>
         /\ registrations' = registrations + 1
         /\ _packet_id' = registrations'
         /\ op'.id = str(registrations') \o <<"+">>
         /\ registrations' >= 1
         /\ op'.name # "set_ack_callback" =>
                 wire_field(op'.sent[1], 2) = op'.id
    /\ (op'.name \in SendingCalls /\ op'.callback = "None") =>
         /\ _packet_id' = _packet_id
         /\ _callback_by_packet_id' = _callback_by_packet_id
         /\ registrations' = registrations
         /\ op'.sent # <<>> => wire_field(op'.sent[1], 2) = <<>>

\* C1: the k-th call that registers a callback returns (set_ack_callback) or
\* embeds in its wire text (message, emit) the id "k+", and the counter is
\* then k; a call without a callback leaves the counter and the registry as
\* they were.
C1_AckIdsCount == [][C1_AckIdsCount_Step]_vars

\* the second registering call was an emit, whose send failed, and it
\* embedded "2+"
C1_Witness ==
    /\ registrations = 2
    /\ op.name = "emit"
    /\ op.callback = "cb2"
    /\ op.id = <<"2", "+">>
    /\ op.result # "ok"

\* what C2 asks of one step
C2_ClaimOnce_Step ==
    /\ op'.name = "get_ack_callback" =>
         LET id == op'.packet_id
             reg == _callback_by_packet_id
         IN  /\ (id \in DOMAIN reg) =>
                 /\ op'.result = "ok"
                 /\ op'.cb = reg[id]
                 /\ DOMAIN _callback_by_packet_id' = (DOMAIN reg) \ {id}
                 /\ \A k \in (DOMAIN reg) \ {id} :
                         _callback_by_packet_id'[k] = reg[k]
             /\ (id \in claimed \/ id \notin DOMAIN reg) =>
                 /\ op'.result = "KeyError"
                 /\ _callback_by_packet_id' = reg
             /\ _packet_id' = _packet_id
    /\ claimed' \cap DOMAIN _callback_by_packet_id' = {}

\* C2: get_ack_callback on a registered id succeeds, returns the callback
\* stored for it and removes it; on an id that it has returned before, or
\* that was never registered, it fails as unknown and changes neither the
\* registry nor the counter; an id that was returned is never registered
\* again.
C2_ClaimOnce == [][C2_ClaimOnce_Step]_vars

\* an id was claimed, and the same id was then asked for again
C2_Witness ==
    /\ op.name = "get_ack_callback"
    /\ op.packet_id \in claimed
    /\ op.result = "KeyError"
    /\ DOMAIN _callback_by_packet_id # {}


(***************************************************************************)
(* Properties of the wire text.                                            *)
(***************************************************************************)
\* the tuple recv_packet yields for one text unit received alone
decoded(text) == recv_packet(<<Text(text)>>).yielded

\* the four values of the last call's packet, as texts
sent_values == <<Text(str(op.code)), Text(op.id), Text(op.path),
                 Text(op.data)>>

has_colon(text) == \E i \in 1..Len(text) : text[i] = ":"

\* C6 as stated: whatever the code, id, path and data of a packet, the text
\* send_packet builds decodes through recv_packet to the same four values.
C6_RoundTripAnyPath ==
    op.sent # <<>> => decoded(op.sent[1]) = <<sent_values>>

\* C6, amended: the text send_packet builds decodes through recv_packet to
\* the code's decimal text and the same id, path and data whenever the path
\* holds no ':' (the data may hold ':').
C6_RoundTrip ==
    (op.sent # <<>> /\ ~has_colon(op.path)) =>
        decoded(op.sent[1]) = <<sent_values>>

\* a message with an id, a path and data that holds a ':' went out
C6_Witness ==
    /\ op.name = "message"
    /\ op.id = <<"1", "+">>
    /\ op.path = <<"/", "a">>
    /\ op.data = <<"x", ":", "y">>
    /\ decoded(op.sent[1]) = <<sent_values>>

\* C7 as stated: trailing empty fields are left out of the wire text:
\* send_heartbeat sends the bare "2", noop the bare "8", and a packet with
\* empty data goes out as code:packetId:path.
C7_TrailingFieldsOmitted ==
    /\ op.name = "send_heartbeat" => op.sent = <<(<<"2">>)>>
    /\ op.name = "noop" => op.sent = <<(<<"8">>)>>
    /\ (op.sent # <<>> /\ op.data = <<>> /\ op.path # <<>>) =>
            op.sent[1] = str(op.code) \o <<":">> \o op.id \o <<":">> \o op.path

\* C7, amended: the wire text always holds all four fields, so three ':'
\* stand before the data whatever is empty: send_heartbeat sends "2:::",
\* noop "8:::", and a packet with empty data goes out as code:packetId:path:
\* with its trailing ':'.
C7_AllFieldsSent ==
    /\ op.name = "send_heartbeat" => op.sent = <<(<<"2", ":", ":", ":">>)>>
    /\ op.name = "noop" => op.sent = <<(<<"8", ":", ":", ":">>)>>
    /\ (op.sent # <<>> /\ op.data = <<>>) =>
            op.sent[1] = str(op.code) \o <<":">> \o op.id \o <<":">>
                            \o op.path \o <<":">>
    /\ op.sent # <<>> =>
            Cardinality({i \in 1..Len(op.sent[1]) : op.sent[1][i] = ":"})
                >= 3

\* a connect with a path and no data went out
C7_Witness ==
    /\ op.name = "connect"
    /\ op.path = <<"/", "a">>
    /\ op.sent = <<(<<"1", ":", ":", "/", "a", ":">>)>>

(***************************************************************************)
(* Properties of disconnect and close.                                     *)
(***************************************************************************)
\* what C9 asks of one step
C9_Disconnect_Step ==
    op'.name = "disconnect" =>
     IF ~connected
     THEN /\ op'.sent = <<>> /\ op'.http = <<>> /\ op'.closes = 0
          /\ UNCHANGED <<kind, _packet_id, _callback_by_packet_id,
                         connected, _jsonp_id>>
     ELSE IF op'.path # <<>>
     THEN /\ op'.sent = <<(<<"0", ":", ":">> \o op'.path \o <<":">>)>>
          /\ op'.closes = 0
          /\ connected'
     ELSE /\ op'.closes = 1
          /\ op'.sent = <<>>

\* C9: disconnect on a transport that is not connected sends nothing, closes
\* nothing and changes no state; on a connected transport, with a path it
\* sends exactly one DISCONNECT packet (code 0) for that path, calls no
\* close and leaves connected true; with an empty path it calls close and
\* sends no packet.
C9_Disconnect == [][C9_Disconnect_Step]_vars

\* disconnect with a path found the transport closed and did nothing
C9_Witness ==
    /\ op.name = "disconnect"
    /\ op.path = <<"/", "a">>
    /\ ~connected
    /\ op.sent = <<>> /\ op.http = <<>> /\ op.closes = 0

Polling == {"xhr-polling", "jsonp-polling"}

\* what C10 asks of one step
C10_PollingConnected_Step ==
    kind \in Polling =>
     /\ (connected /\ op'.closes = 0) => connected'
     /\ op'.closes = 1 =>
         /\ Len(op'.http) = 1
         /\ op'.http[1].method = "GET"
         /\ op'.http[1].disconnect
         /\ ~connected'
     /\ (~connected /\ op'.name = "disconnect") => op'.http = <<>>

\* C10: a polling transport is connected from its construction until close
\* is called, also after a send or a receive that fails; a call of close
\* issues one GET that carries disconnect=true and then connected is false,
\* and a disconnect() after that issues no request.
C10_PollingConnected == [][C10_PollingConnected_Step]_vars

(***************************************************************************)
(* Properties of the receive of the polling transports.                    *)
(***************************************************************************)
\* whether a response text starts with the boundary marker
starts_with_marker(text) == text # <<>> /\ text[1] = "FFFD"

\* whether a response text opens as the wrapper io.j[n]( does
is_wrapper(text) ==
    /\ Len(text) >= 7
    /\ SubSeq(text, 1, 5) = <<"i", "o", ".", "j", "[">>
    /\ \E i \in 7..Len(text) :
            /\ text[i] = "]"
            /\ \A j \in 6..(i - 1) : text[j] \in {Digits[d] : d \in 1..10}

\* the counter n that a wrapper io.j[n]( carries
counter_of(text) ==
    SubSeq(text, 6,
           (CHOOSE i \in 7..Len(text) :
                text[i] = "]" /\ \A j \in 6..(i - 1) : text[j] # "]") - 1)

\* the last call was a receive that succeeded on the JSONP transport
jsonp_received(o) ==
    kind = "jsonp-polling" /\ o.name = "recv_packet" /\ o.result = "ok"

\* every request of the JSONP transport carries the counter as it was when
\* the call began
jsonp_sent_current ==
    kind = "jsonp-polling" =>
        \A i \in 1..Len(op'.http) : op'.http[i].jsonp = Text(_jsonp_id.text)

\* what C11 as stated asks of one step
C11_CounterOfEveryReceive_Step ==
    /\ jsonp_sent_current
    /\ jsonp_received(op') =>
            /\ is_wrapper(op'.response.text.text)
            /\ _jsonp_id'.text = counter_of(op'.response.text.text)

\* C11 as stated: the jsonp counter is 0 at construction, every request
\* sends its current value, and after every receive that succeeds, on a
\* wrapper or on a boundary-framed body, it is the counter that the response
\* carries.
C11_CounterOfEveryReceive ==
    (_jsonp_id.text = <<"0">>) /\ [][C11_CounterOfEveryReceive_Step]_vars

\* what C11, amended, asks of one step
C11_CounterOfWrapper_Step ==
    /\ jsonp_sent_current
    /\ IF jsonp_received(op')
          /\ ~starts_with_marker(op'.response.text.text)
       THEN /\ is_wrapper(op'.response.text.text)
            /\ _jsonp_id'.text = counter_of(op'.response.text.text)
       ELSE _jsonp_id' = _jsonp_id

\* C11, amended: the jsonp counter is 0 at construction and every request
\* sends its current value; after a receive that succeeds on a body that
\* does not start with the boundary marker it is the counter of that
\* response's io.j[n] wrapper; a receive that succeeds on a body that starts
\* with the boundary marker, a receive that fails and every other call
\* leave it as it was.
C11_CounterOfWrapper ==
    (_jsonp_id.text = <<"0">>) /\ [][C11_CounterOfWrapper_Step]_vars

\* a framed body was received after a wrapper of counter 7, the GET carried
\* 7, and the counter is still 7
C11_Witness ==
    /\ jsonp_received(op)
    /\ starts_with_marker(op.response.text.text)
    /\ op.http[1].jsonp = Text(<<"7">>)
    /\ _jsonp_id.text = <<"7">>

\* the errors of the package's own exceptions module (line 10)
OwnErrors == {"SocketIOError", "SocketIOConnectionError", "_TimeoutError"}

\* what C12 asks of one step
C12_ProtocolError_Step ==
    (/\ kind = "jsonp-polling"
     /\ op'.name = "recv_packet"
     /\ op'.response.raises = "none"
     /\ op'.response.status = 200
     /\ ~starts_with_marker(op'.response.text.text)
     /\ ~DATA_PATTERN_match(encode(op'.response.text.text)).matched) =>
        /\ op'.result \in OwnErrors \ {"_TimeoutError",
                                        "SocketIOConnectionError"}
        /\ op'.yielded = <<>>
        /\ op'.units = <<>>
        /\ _jsonp_id' = _jsonp_id

\* C12: a JSONP receive that is answered 200 with a body that neither
\* starts with the boundary marker nor matches the io.j[n] wrapper fails
\* with an error of the package's own taxonomy that is neither the timeout
\* nor the connection error, yields no packet and leaves the jsonp counter
\* as it was.
C12_ProtocolError == [][C12_ProtocolError_Step]_vars

\* the events of a blocking read that are its deadline running out
TimeoutEvents == {"socket.timeout", "requests.ReadTimeout",
                  "requests.ConnectTimeout"}

\* the events of a blocking read that are a closed connection or an error
\* of the socket or the connection
ConnectionEvents == {"socket.error", "ssl.SSLError",
                     "WebSocketConnectionClosedException",
                     "requests.ConnectionError", "requests.SSLError"}

\* what C13 asks of one step
C13_TimeoutOrConnection_Step ==
    op'.name = "recv_packet" =>
        LET e == op'.response.raises
            timed_out == e \in TimeoutEvents
            broken == \/ e \in ConnectionEvents
                      \/ /\ kind \in Polling /\ e = "none"
                         /\ op'.response.status # 200
        IN  /\ timed_out => op'.result = "_TimeoutError"
            /\ broken => op'.result = "SocketIOConnectionError"
            /\ op'.result = "_TimeoutError" => timed_out
            /\ op'.result = "SocketIOConnectionError" => broken
            /\ (timed_out \/ broken) => op'.yielded = <<>>

\* C13: on every transport a receive whose blocking call runs out of time
\* fails with the timeout error, also when the library's exception is a
\* socket or connection error as well (socket.timeout, ConnectTimeout); a
\* receive that meets a closed connection, a socket error or a status other
\* than 200 fails with the connection error; neither error is raised for
\* an event of the other kind.
C13_TimeoutOrConnection == [][C13_TimeoutOrConnection_Step]_vars

\* a polling receive met a connect timeout, which is a ConnectionError of
\* the library too, and failed with the timeout error
C13_Witness ==
    /\ op.name = "recv_packet"
    /\ kind = "xhr-polling"
    /\ op.response.raises = "requests.ConnectTimeout"
    /\ op.result = "_TimeoutError"

\* whether the library's answer to a send is a failure
send_failed(k, out) ==
    out.raises # "none" \/ (k \in Polling /\ out.status # 200)

\* what C15 asks of one step
C15_NoRollback_Step ==
    (op'.name \in SendingCalls /\ op'.callback # "None") =>
        LET key == str(_packet_id + 1)
        IN  /\ _packet_id' = _packet_id + 1
            /\ DOMAIN _callback_by_packet_id'
                    = (DOMAIN _callback_by_packet_id) \cup {key}
            /\ _callback_by_packet_id'[key] = op'.callback
            /\ has_ack_callback'
            /\ Len(op'.sent) = 1
            /\ wire_field(op'.sent[1], 2) = key \o <<"+">>
            /\ send_failed(kind, op'.response) => op'.result # "ok"

\* C15: send_packet with a callback stores the callback under the id it
\* has just minted, and the text it hands to send holds that id; when the
\* send raises, the call fails, and the callback is registered, the counter
\* incremented and has_ack_callback true all the same.
C15_NoRollback == [][C15_NoRollback_Step]_vars

\* a message with a callback timed out in its send, and its callback is
\* registered under 1
C15_Witness ==
    /\ op.name = "message"
    /\ op.callback = "cb1"
    /\ op.result = "_TimeoutError"
    /\ _packet_id = 1
    /\ DOMAIN _callback_by_packet_id = {<<"1">>}
    /\ has_ack_callback


(***************************************************************************)
(* _negotiate_transport (lines 242-258) and the constructors it calls      *)
(* (lines 21-23, 106-117, 145-151, 193-200).                               *)
(***************************************************************************)
\* x in a list
contains(list, x) == \E j \in 1..Len(list) : list[j] = x

\* the loop of lines 246-247 with the preference taken from the server's
\* list instead of the client's
first_supported_by_server(client, server) ==
    IF \E j \in 1..Len(server) : contains(client, server[j])
    THEN server[CHOOSE j \in 1..Len(server) :
                    /\ contains(client, server[j])
                    /\ \A h \in 1..(j - 1) : ~contains(client, server[h])]
    ELSE "none"

\* the loop of lines 246-247: the first entry of the client's list that the
\* server's list holds, "none" when the loop runs to its end
first_supported(client, server) ==
    IF \E i \in 1..Len(client) : contains(server, client[i])
    THEN client[CHOOSE i \in 1..Len(client) :
                    /\ contains(server, client[i])
                    /\ \A h \in 1..(i - 1) : ~contains(server, client[h])]
    ELSE "none"

\* a list of names as pieces of text
pieces(list) == [i \in 1..Len(list) |-> <<list[i]>>]

\* the message of lines 254-258, as its pieces of text in order
negotiation_message(client, server) ==
    join(<<" ">>,
         <<(<<"could not negotiate a transport:">>),
           <<"client supports ">> \o join(<<", ">>, pieces(client))
                \o <<" but">>,
           <<"server supports ">> \o join(<<", ">>, pieces(server))>>)

\* what the constructor of the named transport may meet: only the websocket
\* opens a connection (line 112)
ConstructorOutcomes(name) ==
    IF name = "websocket"
    THEN {"none", "socket.timeout", "socket.error", "WebSocketException"}
    ELSE {"none"}

\* the constructor on what create_connection did (lines 111-116)
construct(name, raises) ==
    IF raises = "none" THEN "ok"
    ELSE IF isinstance(raises, "socket.timeout")
        THEN "SocketIOConnectionError"
    ELSE IF isinstance(raises, "socket.error")
        THEN "SocketIOConnectionError"
    ELSE raises

\* the names of the client's list after its first entry of the given name
after_first(client, name) ==
    SubSeq(client,
           (CHOOSE i \in 1..Len(client) :
                client[i] = name /\ \A h \in 1..(i - 1) : client[h] # name) + 1,
           Len(client))

\* _negotiate_transport going on with the loop when a constructor raises
_negotiate_transport_fallback(client, server, raises) ==
    LET selected == first_supported(client, server)
        later == IF selected = "none" THEN "none"
                 ELSE first_supported(after_first(client, selected), server)
    IN  IF selected = "none"
        THEN [result |-> "SocketIOError", selected |-> "none",
              message |-> negotiation_message(client, server),
              tried |-> <<>>]
        ELSE IF construct(selected, raises) # "ok" /\ later # "none"
                /\ later # selected
        THEN [result |-> "ok", selected |-> later, message |-> <<>>,
              tried |-> <<selected, later>>]
        ELSE [result |-> construct(selected, raises), selected |-> selected,
              message |-> <<>>, tried |-> <<selected>>]

\* _negotiate_transport: the name selected, the constructors called and how
\* the call ends
_negotiate_transport(client, server, raises) ==
    LET selected == first_supported(client, server)
    IN  IF selected = "none"
        THEN [result |-> "SocketIOError", selected |-> "none",
              message |-> negotiation_message(client, server),
              tried |-> <<>>]
        ELSE [result |-> construct(selected, raises), selected |-> selected,
              message |-> <<>>, tried |-> <<selected>>]

RECURSIVE ListsUpTo(_, _)
\* the lists over S of at most n entries
ListsUpTo(S, n) ==
    IF n = 0 THEN {<<>>}
    ELSE LET shorter == ListsUpTo(S, n - 1)
         IN  shorter \cup {Append(l, x) : l \in shorter, x \in S}

TransportNames == {TRANSPORTS[i] : i \in 1..Len(TRANSPORTS)}

\* no transport is constructed yet
NoTransport ==
    /\ kind = "none"
    /\ _packet_id = 0
    /\ _callback_by_packet_id = <<>>
    /\ connected = FALSE
    /\ _jsonp_id = JsonpInt(0)
    /\ op = NoOp
    /\ registrations = 0
    /\ claimed = {}

InitNegotiate ==
    /\ NoTransport
    /\ \E client \in ListsUpTo(TransportNames, MaxList),
          server \in ListsUpTo(TransportNames, MaxList) :
            nego = [NegoIdle EXCEPT !.state = "ready", !.client = client,
                                    !.server = server]
    /\ RecvIdleInit
    /\ FrameIdleInit
    /\ ThreadsIdleInit

\* one call of the negotiator; the transport it returns is as its
\* constructor leaves it
Negotiate ==
    /\ nego.state = "ready"
    /\ \E raises \in ConstructorOutcomes(
                        first_supported(nego.client, nego.server)) :
        LET r == _negotiate_transport(nego.client, nego.server, raises)
        IN  /\ nego' = [nego EXCEPT !.state = "done", !.result = r.result,
                                    !.selected = r.selected,
                                    !.message = r.message,
                                    !.tried = r.tried, !.raised = raises]
            /\ IF r.result = "ok"
               THEN /\ kind' = r.selected
                    /\ connected' = TRUE
               ELSE UNCHANGED <<kind, connected>>
    /\ UNCHANGED <<_packet_id, _callback_by_packet_id, _jsonp_id, op,
                   registrations, claimed, batch, rp, body, fr, th>>

NextNegotiate == Negotiate

SpecNegotiate == InitNegotiate /\ [][NextNegotiate]_vars

\* the entries of the client's list that the server's list holds too
shared(client, server) ==
    {i \in 1..Len(client) : \E j \in 1..Len(server) : server[j] = client[i]}

\* C3: the negotiator selects the first name of the client's list that the
\* server's list also holds, and a transport it returns is of that name; it
\* fails with the negotiation error exactly when the lists share no name,
\* and the message then holds every name of both lists.
C3_Negotiation ==
    nego.state = "done" =>
        LET common == shared(nego.client, nego.server)
        IN  /\ (nego.result = "SocketIOError") <=> (common = {})
            /\ common # {} =>
                /\ \E i \in common :
                    /\ \A h \in common : i <= h
                    /\ nego.selected = nego.client[i]
                /\ nego.result = "ok" => kind = nego.selected
                /\ nego.result # "ok" => kind = "none"
            /\ common = {} =>
                /\ kind = "none"
                /\ \A i \in 1..Len(nego.client) :
                        contains(nego.message, nego.client[i])
                /\ \A j \in 1..Len(nego.server) :
                        contains(nego.message, nego.server[j])

\* the client's second choice is the server's first, and it was selected
C3_Witness ==
    /\ nego.state = "done"
    /\ nego.client = <<"websocket", "xhr-polling", "jsonp-polling">>
    /\ nego.server = <<"jsonp-polling", "xhr-polling">>
    /\ nego.result = "ok"
    /\ kind = "xhr-polling"


(***************************************************************************)
(* recv_packet, one turn of its loop at a time, on the batch of units one  *)
(* recv() call yields: a websocket gives one unit, which may be None; a    *)
(* polling transport gives as many texts as its response frames hold.      *)
(***************************************************************************)
\* texts of one, two, three, four and five fields
UnitTexts == {<<"8">>, <<"5", ":", "1">>, <<"2", ":", ":">>,
              <<"5", ":", "1", ":", "/", "a", ":", "x">>,
              <<"3", ":", ":", ":", "x", ":", "y">>}

Batches ==
    {<<None>>} \cup {as_units(l) : l \in ListsUpTo(UnitTexts, MaxBatch)}

InitRecv ==
    /\ NoTransport
    /\ NegoIdleInit
    /\ batch \in Batches
    /\ rp = [RecvIdle EXCEPT !.i = 1]
    /\ FrameIdleInit
    /\ ThreadsIdleInit

\* the generator is resumed and runs to its next yield, or to its end
RecvPacketNext ==
    /\ rp.i <= Len(batch)
    /\ rp' = [recv_step(rp, batch[rp.i]) EXCEPT !.i = rp.i + 1]
    /\ UNCHANGED <<tvars, nego, batch, body, fr, th>>

NextRecv == RecvPacketNext

SpecRecv == InitRecv /\ [][NextRecv]_vars

\* the number of fields of a unit, 0 for a unit that is no text
field_count(unit) ==
    IF unit.isNone THEN 0 ELSE Len(split(unit.text, ":", 3))

\* the tuple a unit of one, three or four fields stands for by itself
tuple_of(unit) ==
    LET parts == split(unit.text, ":", 3)
    IN  CASE Len(parts) = 4 -> <<Text(parts[1]), Text(parts[2]),
                                 Text(parts[3]), Text(parts[4])>>
          [] Len(parts) = 3 -> <<Text(parts[1]), Text(parts[2]),
                                 Text(parts[3]), None>>
          [] Len(parts) = 1 -> <<Text(parts[1]), None, None, None>>

\* what C4 asks of one step
C4_TupleOfUnitAlone_Step ==
    field_count(batch[rp.i]) \in {1, 3, 4} =>
        /\ Len(rp'.yielded) = Len(rp.yielded) + 1
        /\ rp'.yielded[Len(rp'.yielded)] = tuple_of(batch[rp.i])

\* C4: the tuple yielded for a unit of four, three or one fields depends on
\* that unit alone: all four values for four fields, data absent for three,
\* only the code for one, whatever units came before it in the batch.
C4_TupleOfUnitAlone == [][C4_TupleOfUnitAlone_Step]_vars

\* the units among the first n of the batch that have one, three or four
\* fields
well_formed(n) == {j \in 1..n : field_count(batch[j]) \in {1, 3, 4}}

\* C5: a unit whose number of fields is not 1, 3 or 4 yields no tuple, and
\* the loop goes on: the tuples yielded are as many as the units of one,
\* three or four fields gone through.
C5_MalformedSkipped ==
    Len(rp.yielded) = Cardinality(well_formed(rp.i - 1))

(***************************************************************************)
(* _yield_text_from_framed_data, one turn of its loop at a time, on the    *)
(* text of one polling response.                                           *)
(***************************************************************************)
FrameAlphabet == {"FFFD", "0", "1", "a", "E9"}

InitFrame ==
    /\ NoTransport
    /\ NegoIdleInit
    /\ RecvIdleInit
    /\ body \in ListsUpTo(FrameAlphabet, MaxBody)
    /\ fr = [FrameIdle EXCEPT !.k = 1]
    /\ ThreadsIdleInit

\* the pairs of the body
body_pairs == framed_pairs(framed_parts(encode(body)))

\* the generator is resumed and takes the next pair
FrameNext ==
    /\ fr.k <= Len(body_pairs)
    /\ fr' = [framed_step(fr, body_pairs[fr.k]) EXCEPT !.k = fr.k + 1]
    /\ UNCHANGED <<tvars, nego, batch, rp, body, th>>

NextFrame == FrameNext

SpecFrame == InitFrame /\ [][NextFrame]_vars

\* the fragments of the body between its boundary characters
fragments == split(body, "FFFD", -1)

\* whether fragments 2k and 2k+1 are a length and a text of that many
\* characters
well_framed(frags, k) == frags[2 * k] = str(Len(frags[2 * k + 1]))

RECURSIVE texts_upto(_, _)
\* the texts of the well-framed pairs among the first n, in body order
texts_upto(frags, n) ==
    IF n = 0 THEN <<>>
    ELSE texts_upto(frags, n - 1)
            \o (IF well_framed(frags, n) THEN <<frags[2 * n + 1]>> ELSE <<>>)

\* C8: the fragments between the boundary markers are paired as (length,
\* text) from index 1 on, and the texts yielded are, in body order, exactly
\* those whose length fragment is the decimal numeral of the text's number
\* of characters; a mismatched pair is not yielded and does not stop the
\* pairs after it, and a trailing fragment without a partner is ignored.
C8_Deframing ==
    \A frags \in {fragments} :
        /\ Len(body_pairs) = (Len(frags) - 1) \div 2
        /\ fr.k - 1 <= Len(body_pairs)
        /\ fr.yielded = texts_upto(frags, fr.k - 1)

\* a mismatched pair came first, and the pair after it, whose text is one
\* character of two bytes, was yielded
C8_Witness ==
    /\ body = <<"FFFD", "1", "FFFD", "FFFD", "1", "FFFD", "E9">>
    /\ fr.k = 3
    /\ fr.yielded = <<(<<"E9">>)>>

\* C14: a warning is logged for a pair exactly when its declared length does
\* not match its text's length: the pairs warned about are the mismatched
\* ones among the pairs gone through, and a pair that was yielded is not
\* among them.
C14_WarnOnlyMismatch ==
    \A frags \in {fragments} :
        /\ Len(fr.warnings)
                = Cardinality({n \in 1..(fr.k - 1) : ~well_framed(frags, n)})
        /\ \A i \in 1..Len(fr.warnings) :
                fr.warnings[i].text_length # str(Len(fr.warnings[i].text))


(***************************************************************************)
(* The units of a plain polling receive.                                   *)
(***************************************************************************)
\* the texts of all the well-framed pairs of a text, in order
framed_texts(text) ==
    LET frags == split(text, "FFFD", -1)
    IN  texts_upto(frags, (Len(frags) - 1) \div 2)

\* what C16 asks of one step
C16_WholeBodyFirst_Step ==
    (kind = "xhr-polling" /\ op'.name = "recv_packet" /\ op'.result = "ok") =>
        LET text == op'.response.text.text
            whole == IF ~starts_with_marker(text)
                     THEN <<Text(text)>> ELSE <<>>
        IN  op'.units = whole \o as_units(framed_texts(text))

\* C16: a plain polling receive yields the whole body as its first packet
\* exactly when the body does not start with the boundary marker, and after
\* it, or alone when the body starts with the marker, the texts of the
\* boundary-framing scan of the same body, in order.
C16_WholeBodyFirst == [][C16_WholeBodyFirst_Step]_vars

\* a body that starts with a letter and holds one frame was yielded whole,
\* and the frame's text after it
C16_Witness ==
    /\ kind = "xhr-polling"
    /\ op.name = "recv_packet"
    /\ op.response.text.text = <<"x", "FFFD", "1", "FFFD", "8">>
    /\ op.units = <<Text(<<"x", "FFFD", "1", "FFFD", "8">>), Text(<<"8">>)>>


(***************************************************************************)
(* set_ack_callback (lines 87-91) called by one or two threads on the same *)
(* transport, one access of the shared attributes at a time: line 89 reads *)
(* the counter and writes it back incremented, line 90 reads it and stores *)
(* the callback, line 91 reads it and formats the id.                      *)
(***************************************************************************)
\* line 89 without its addition
iadd_lost(v) == v

\* the value line 89 writes back
iadd(v) == v + 1

\* the callback a thread registers
ThreadCallback(t) == IF t = 1 THEN "cb1" ELSE "cb2"

InitThreads ==
    /\ kind \in TransportNames
    /\ _packet_id = 0
    /\ _callback_by_packet_id = <<>>
    /\ connected = TRUE
    /\ _jsonp_id = JsonpInt(0)
    /\ op = NoOp
    /\ registrations = 0
    /\ claimed = {}
    /\ NegoIdleInit
    /\ RecvIdleInit
    /\ FrameIdleInit
    /\ \E n \in Threads : th = [ThreadsIdle EXCEPT !.n = n]

\* a thread enters set_ack_callback
ThreadCall ==
    \E t \in 1..th.n :
        /\ th.pc[t] = "idle"
        /\ th.calls[t] < MaxCalls
        /\ th' = [th EXCEPT !.pc[t] = "read",
                            !.callback[t] = ThreadCallback(t)]
        /\ UNCHANGED <<tvars, nego, batch, rp, body, fr>>

\* line 89, the read of self._packet_id
ThreadRead ==
    \E t \in 1..th.n :
        /\ th.pc[t] = "read"
        /\ th' = [th EXCEPT !.pc[t] = "write", !.tmp[t] = _packet_id]
        /\ UNCHANGED <<tvars, nego, batch, rp, body, fr>>

\* line 89, the write of self._packet_id
ThreadWrite ==
    \E t \in 1..th.n :
        /\ th.pc[t] = "write"
        /\ _packet_id' = iadd(th.tmp[t])
        /\ th' = [th EXCEPT !.pc[t] = "store"]
        /\ UNCHANGED <<kind, _callback_by_packet_id, connected, _jsonp_id,
                       op, registrations, claimed, nego, batch, rp, body, fr>>

\* line 90
ThreadStore ==
    \E t \in 1..th.n :
        /\ th.pc[t] = "store"
        /\ _callback_by_packet_id' =
                setitem(_callback_by_packet_id, str(_packet_id),
                        th.callback[t])
        /\ th' = [th EXCEPT !.pc[t] = "return"]
        /\ UNCHANGED <<kind, _packet_id, connected, _jsonp_id, op,
                       registrations, claimed, nego, batch, rp, body, fr>>

\* line 91: the call returns its id
ThreadReturn ==
    \E t \in 1..th.n :
        /\ th.pc[t] = "return"
        /\ th' = [th EXCEPT !.pc[t] = "idle",
                            !.calls[t] = th.calls[t] + 1,
                            !.done = th.done \cup
                                {[thread |-> t, call |-> th.calls[t] + 1,
                                  id |-> str(_packet_id) \o <<"+">>,
                                  callback |-> th.callback[t]]}]
        /\ registrations' = registrations + 1
        /\ UNCHANGED <<kind, _packet_id, _callback_by_packet_id, connected,
                       _jsonp_id, op, claimed, nego, batch, rp, body, fr>>

NextThreads ==
    \/ ThreadCall
    \/ ThreadRead
    \/ ThreadWrite
    \/ ThreadStore
    \/ ThreadReturn

SpecThreads == InitThreads /\ [][NextThreads]_vars

\* C17: with a single caller thread no two calls that register a callback
\* return the same id, and every callback registered is in the registry
\* under its id without the '+'; two calls that return the same id, one
\* callback overwriting the other, need two threads.
C17_SingleCallerDistinctIds ==
    th.n = 1 =>
        /\ \A c \in th.done, d \in th.done : c # d => c.id # d.id
        /\ \A c \in th.done :
                /\ rstrip(c.id, "+") \in DOMAIN _callback_by_packet_id
                /\ _callback_by_packet_id[rstrip(c.id, "+")] = c.callback
        /\ Cardinality(DOMAIN _callback_by_packet_id)
                >= Cardinality(th.done)

\* two threads each made one call: both returned the same id and the
\* registry holds one callback only
C17_Witness ==
    /\ th.n = 2
    /\ Cardinality(th.done) = 2
    /\ \E c \in th.done, d \in th.done :
            c.thread # d.thread /\ c.id = d.id
    /\ Cardinality(DOMAIN _callback_by_packet_id) = 1


(***************************************************************************)
(* The negotiator and the calls on a transport, each from its own initial  *)
(* states.                                                                 *)
(***************************************************************************)
InitCore == Init \/ InitNegotiate

\* a call on a transport that was constructed directly
CoreCall == nego.state = "idle" /\ Next

NextCore ==
    \/ Negotiate
    \/ CoreCall

SpecCore == InitCore /\ [][NextCore]_vars

\* what C18 asks of one step
C18_NoRetry_Step ==
    /\ (nego'.state = "done" /\ shared(nego'.client, nego'.server) # {}) =>
            /\ nego'.tried = <<nego'.selected>>
            /\ \E i \in shared(nego'.client, nego'.server) :
                    /\ \A h \in shared(nego'.client, nego'.server) : i <= h
                    /\ nego'.selected = nego'.client[i]
            /\ nego'.raised \in {"socket.timeout", "socket.error"} =>
                    nego'.result = "SocketIOConnectionError"
            /\ nego'.raised = "WebSocketException" =>
                    nego'.result = "WebSocketException"
            /\ nego'.raised # "none" => kind' = "none"
    /\ (op'.name \in SendingCalls /\ op'.code # -1) =>
            /\ Len(op'.sent) = 1
            /\ Len(op'.http) = (IF kind \in Polling THEN 1 ELSE 0)
    /\ op'.name = "recv_packet" =>
            /\ Len(op'.http) = (IF kind \in Polling THEN 1 ELSE 0)
            /\ op'.result # "ok" => op'.units = <<>>

\* C18: when the constructor of the first name both lists hold fails, the
\* negotiator has called that constructor only, fails with its failure and
\* returns no transport, whatever later names the lists share; each call
\* that reaches send_packet hands one text to the transport's send, which
\* makes one request on a polling transport, and each receive makes one
\* read.
C18_NoRetry == [][C18_NoRetry_Step]_vars

\* the websocket could not be opened and xhr-polling, which both lists
\* hold too, was not tried
C18_Witness ==
    /\ nego.state = "done"
    /\ nego.client = <<"websocket", "xhr-polling">>
    /\ nego.server = <<"xhr-polling", "websocket">>
    /\ nego.raised = "socket.error"
    /\ nego.result = "SocketIOConnectionError"
    /\ nego.tried = <<"websocket">>
    /\ kind = "none"


(***************************************************************************)
(* The key of the registry and the id returned.                            *)
(***************************************************************************)
\* what C19 asks of one step
C19_KeyWithoutPlus_Step ==
    /\ (op'.name \in RegisteringCalls /\ op'.callback # "None") =>
            /\ op'.id = str(_packet_id') \o <<"+">>
            /\ DOMAIN _callback_by_packet_id'
                    = (DOMAIN _callback_by_packet_id) \cup {str(_packet_id')}
    /\ op'.name = "get_ack_callback" =>
            IF op'.packet_id[Len(op'.packet_id)] = "+"
            THEN /\ op'.result = "KeyError"
                 /\ _callback_by_packet_id' = _callback_by_packet_id
            ELSE (op'.result = "ok") <=>
                    (op'.packet_id \in DOMAIN _callback_by_packet_id)

\* C19: the registry is keyed by the counter's decimal text without the
\* '+': a registering call returns or embeds the text with '+' and stores
\* under the text without it; get_ack_callback with the returned text fails
\* as unknown and removes nothing, and with the text without '+' it
\* succeeds exactly when that id is registered.
C19_KeyWithoutPlus == [][C19_KeyWithoutPlus_Step]_vars

\* the callback is registered under "1", and the lookup of "1+" failed
C19_Witness ==
    /\ op.name = "get_ack_callback"
    /\ op.packet_id = <<"1", "+">>
    /\ op.result = "KeyError"
    /\ <<"1">> \in DOMAIN _callback_by_packet_id

====
